---- MODULE Spec2Model ----
(***************************************************************************)
(* A model of chart.py, the Finviz chart viewer: the three number          *)
(* formatters (format_number, format_percentage, format_pe_ratio) and the  *)
(* per-ticker loop of the script body with its five display functions.     *)
(*                                                                         *)
(* Numbers.  A Python float is modelled as an exact decimal in base 1000:  *)
(*   [kind |-> "num", neg, digs, pt, up]                                   *)
(* stands for (-1)^neg * SUM_j digs[j] * 1000^(j - 1 - pt); digs[1] is the *)
(* least significant group and pt the number of fractional groups.  The    *)
(* field up tells on which side of an exact decimal tie (x.x5 for one      *)
(* fractional digit) the binary double holding the value lies: a tie is    *)
(* rendered upwards iff up.  None is Python's None, NaN the float nan that *)
(* pandas stores in an empty numeric cell.                                 *)
(*                                                                         *)
(* Rendered text.  A formatted numeral is                                  *)
(*   [kind |-> "str", neg, whole, frac, places, unit]                      *)
(* where whole is the integer part in base-1000 groups (least significant  *)
(* first, no leading zero group), frac the places fractional digits as a   *)
(* number and unit the suffix; "1.5M" is                                   *)
(*   [neg |-> FALSE, whole |-> <<1>>, frac |-> 5, places |-> 1, "M"].      *)
(***************************************************************************)
EXTENDS Integers, Sequences, FiniteSets, TLC

VARIABLES
    tickers,   \* the selection returned by st.sidebar.multiselect
    idx,       \* position of the loop variable ticker in tickers
    pc,        \* statement of the loop body that runs next
    out,       \* the render calls made so far, in order
    reqs,      \* the data-client property reads made so far, in order
    resp,      \* what the data client returned to the last display function
    text,      \* the payloads of the render calls of the last display function
    arg,       \* formatter harness: the argument
    fnc,       \* formatter harness: the formatter that was applied
    res        \* formatter harness: its result

vars == <<tickers, idx, pc, out, reqs, resp, text, arg, fnc, res>>

----------------------------------------------------------------------------
(* Bounds *)

IntGroups == 6      \* base-1000 groups before the point: magnitudes < 10^18
FracGroups == 2     \* base-1000 groups after the point: resolution 10^-6
MaxSel == 2         \* longest selection
MaxRecs == 12       \* most rows of a recommendations table

(* Program constants *)

Base == 1000        \* abs(number) < 1000.0, number /= 1000.0
TailRows == 10      \* rating.tail(10)

NG == IntGroups + FracGroups

----------------------------------------------------------------------------
(* Values *)

None == [kind |-> "None"]
NaN == [kind |-> "nan"]

IsNum(v) == v.kind = "num"

Units == <<"", "K", "M", "B", "T">>

\* digs with the groups top, mid, low at positions pos, pos-1, pos-2
Place(top, mid, low, pos) ==
    [j \in 1..NG |-> IF j = pos THEN top
                     ELSE IF j = pos - 1 THEN mid
                     ELSE IF j = pos - 2 THEN low
                     ELSE 0]

Group(digs, j) == IF j >= 1 /\ j <= Len(digs) THEN digs[j] ELSE 0

\* number /= 1000.0
Div1000(number) ==
    IF IsNum(number) THEN [number EXCEPT !.pt = @ + 1] ELSE number

\* a slip: abs(number) <= 1000.0
AbsLe1000(number) ==
    /\ IsNum(number)
    /\ \A j \in (number.pt + 3)..Len(number.digs) : number.digs[j] = 0
    /\ \/ Group(number.digs, number.pt + 2) = 0
       \/ /\ Group(number.digs, number.pt + 2) = 1
          /\ \A j \in 1..(number.pt + 1) : Group(number.digs, j) = 0

\* abs(number) < 1000.0 (false for nan, like every comparison with nan)
AbsLt1000(number) ==
    /\ IsNum(number)
    /\ \A j \in (number.pt + 2)..Len(number.digs) : number.digs[j] = 0

\* number * 100
Mul100(number) ==
    IF IsNum(number)
    THEN [number EXCEPT !.digs =
            [j \in 1..(Len(number.digs) + 1) |->
                (Group(number.digs, j) % 10) * 100 + (Group(number.digs, j - 1) \div 10)]]
    ELSE number

RECURSIVE Inc(_)
\* whole + 1, on base-1000 groups
Inc(whole) ==
    IF whole = <<>> THEN <<1>>
    ELSE IF Head(whole) + 1 < Base THEN <<Head(whole) + 1>> \o Tail(whole)
    ELSE <<0>> \o Inc(Tail(whole))

RECURSIVE Trim(_)
\* whole without leading zero groups; zero is <<0>>
Trim(whole) ==
    IF Len(whole) <= 1 THEN (IF whole = <<>> THEN <<0>> ELSE whole)
    ELSE IF whole[Len(whole)] = 0 THEN Trim(SubSeq(whole, 1, Len(whole) - 1))
    ELSE whole

\* f"{number:.<places>f}" followed by unit, places in {1, 2}
Fixed(number, places, unit) ==
    IF ~IsNum(number) THEN [kind |-> "str", nan |-> TRUE, unit |-> unit]
    ELSE
    LET scale == IF places = 1 THEN 100 ELSE 10
        top == Group(number.digs, number.pt)
        q == top \div scale
        r == top % scale
        half == scale \div 2
        lowerZero == \A j \in 1..(number.pt - 1) : Group(number.digs, j) = 0
        roundUp == r > half \/ (r = half /\ (~lowerZero \/ number.up))
        whole == [j \in 1..(Len(number.digs) - number.pt) |-> number.digs[number.pt + j]]
        carry == roundUp /\ q + 1 = Base \div scale
    IN  [kind |-> "str",
         neg |-> number.neg,
         whole |-> Trim(IF carry THEN Inc(whole) ELSE whole),
         frac |-> IF carry THEN 0 ELSE IF roundUp THEN q + 1 ELSE q,
         places |-> places,
         unit |-> unit]

NA == [kind |-> "str", na |-> TRUE]

RECURSIVE FormatLoop(_, _)
\* the for loop of format_number from its i-th unit on, and the return after it
FormatLoop(number, i) ==
    IF i > Len(Units) THEN Fixed(number, 1, "T")
    ELSE IF AbsLt1000(number) THEN Fixed(number, 1, Units[i])
    ELSE FormatLoop(Div1000(number), i + 1)

format_number(number) ==
    IF number = None THEN NA ELSE FormatLoop(number, 1)

format_percentage(number) ==
    IF number = None THEN NA ELSE Fixed(Mul100(number), 2, "%")

\* a slip: "if not pe_ratio", which takes zero for missing
format_pe_ratio_falsy(pe_ratio) ==
    IF pe_ratio = None \/ (IsNum(pe_ratio) /\ \A j \in 1..Len(pe_ratio.digs) : pe_ratio.digs[j] = 0)
    THEN NA
    ELSE Fixed(pe_ratio, 2, "X")

format_pe_ratio(pe_ratio) ==
    IF pe_ratio = None THEN NA ELSE Fixed(pe_ratio, 2, "X")

----------------------------------------------------------------------------
(* The data client (yfinance) and the renderer (streamlit).                *)
(*                                                                         *)
(* Every property read of yf.Ticker either raises or returns data; the     *)
(* script has no try/except, so an exception raised in a display function  *)
(* ends the script run (pc = "aborted").  A table is modelled by one row:  *)
(* a function from its columns to cells.                                   *)

Options == {"GOOG", "AMZN", "PLTR"}

Raise == [kind |-> "raise"]

\* 2 340 000 000, 23.456 and 0.1534
SampleBig == [kind |-> "num", neg |-> FALSE, digs |-> Place(2, 340, 0, FracGroups + 4),
              pt |-> FracGroups, up |-> FALSE]
SampleRatio == [kind |-> "num", neg |-> FALSE, digs |-> Place(23, 456, 0, FracGroups + 1),
                pt |-> FracGroups, up |-> FALSE]
SampleGrowth == [kind |-> "num", neg |-> FALSE, digs |-> Place(0, 153, 400, FracGroups + 1),
                 pt |-> FracGroups, up |-> FALSE]
SampleSector == [kind |-> "str", txt |-> "Technology"]

InfoKeys == {"marketCap", "trailingPE", "forwardPE", "earningsGrowth", "totalRevenue",
             "netIncomeToCommon", "sharesOutstanding", "sector"}

InfoValue(key) ==
    IF key \in {"trailingPE", "forwardPE"} THEN SampleRatio
    ELSE IF key = "earningsGrowth" THEN SampleGrowth
    ELSE IF key = "sector" THEN SampleSector
    ELSE SampleBig

\* stock.info: a map holding the keys but at most one, or at most one of them
Infos ==
    { [k \in S |-> InfoValue(k)] :
        S \in { T \in SUBSET InfoKeys : Cardinality(T) <= 1 \/ Cardinality(InfoKeys \ T) <= 1 } }

\* info.get(key, default)
Get(info, key, default) == IF key \in DOMAIN info THEN info[key] ELSE default

\* one-row tables over any subset of cols
Tables(cols, cells) == UNION { [S -> cells] : S \in SUBSET cols }

FinancialCols == {"Total Revenue", "Net Income"}
EarningsCols == {"Revenue", "Earnings"}
CalendarCols == {"Earnings Average"}

\* a cell of an object column: None, nan or a number
Cells == {None, NaN, SampleBig}
\* a cell of a numeric column: nan or a number
NumericCells == {NaN, SampleBig}

Financials == Tables(FinancialCols, Cells)
Earnings == {None} \cup Tables(EarningsCols, NumericCells)
Calendars == Tables(CalendarCols, NumericCells)
Recommendations == {None} \cup { [rows |-> [i \in 1..n |-> i]] : n \in 0..MaxRecs }

\* a slip: the chart drawn after the stock information
StepsChartLate == <<"heading", "info", "chart", "financials", "calendar", "rating", "separator">>

\* the statements of the loop body, in order
Steps == <<"heading", "chart", "info", "financials", "calendar", "rating", "separator">>

\* the statement after step, "loop" after the last one
After(step) ==
    LET i == CHOOSE j \in 1..Len(Steps) : Steps[j] = step
    IN  IF i < Len(Steps) THEN Steps[i + 1] ELSE "loop"

Ticker == tickers[idx]

Call(sec, el) == [tk |-> Ticker, sec |-> sec, el |-> el]

Read(ep, missing) == [tk |-> Ticker, ep |-> ep, missing |-> missing]

\* an exception leaves the display function and ends the script run
Abort ==
    /\ pc' = "aborted"
    /\ text' = <<>>
    /\ UNCHANGED <<tickers, idx, out, arg, fnc, res>>

RunSelections ==
    UNION { { s \in [1..n -> Options] : \A i, j \in 1..n : i # j => s[i] # s[j] } :
            n \in 0..MaxSel }

Init ==
    /\ tickers \in RunSelections
    /\ idx = 0
    /\ pc = "loop"
    /\ out = <<>>
    /\ reqs = <<>>
    /\ resp = [kind |-> "none"]
    /\ text = <<>>
    /\ arg = None
    /\ fnc = "idle"
    /\ res = [kind |-> "pending"]

\* for ticker in tickers: the next ticker
NextTicker ==
    /\ pc = "loop"
    /\ idx < Len(tickers)
    /\ idx' = idx + 1
    /\ pc' = Steps[1]
    /\ resp' = [kind |-> "none"]
    /\ text' = <<>>
    /\ UNCHANGED <<tickers, out, reqs, arg, fnc, res>>

\* the loop is exhausted: st.sidebar.write("Made with ...")
Finish ==
    /\ pc = "loop"
    /\ idx = Len(tickers)
    /\ pc' = "done"
    /\ resp' = [kind |-> "none"]
    /\ text' = <<>>
    /\ UNCHANGED <<tickers, idx, out, reqs, arg, fnc, res>>

\* st.write(f"## {ticker}")
Heading ==
    /\ pc = "heading"
    /\ out' = Append(out, Call("heading", "write"))
    /\ text' = <<[md |-> "##", tk |-> Ticker]>>
    /\ resp' = [kind |-> "none"]
    /\ pc' = After("heading")
    /\ UNCHANGED <<tickers, idx, reqs, arg, fnc, res>>

finviz_url(ticker) ==
    [host |-> "finviz.com/chart.ashx", t |-> ticker, ty |-> "c", ta |-> "st_1,ta_4",
     p |-> "d", s |-> "l"]

display_finviz_chart ==
    /\ pc = "chart"
    /\ out' = out \o <<Call("chart", "header"), Call("chart", "markdown"),
                       Call("chart", "markdown")>>
    /\ text' = <<[label |-> "Finviz Chart Viewer"],
                 [img |-> finviz_url(Ticker), href |-> finviz_url(Ticker)],
                 [caption |-> Ticker, href |-> finviz_url(Ticker)]>>
    /\ resp' = [kind |-> "none"]
    /\ pc' = After("chart")
    /\ UNCHANGED <<tickers, idx, reqs, arg, fnc, res>>

\* the eight st.write lines of display_stock_info
InfoLines(info) ==
    <<[label |-> "Market Cap", key |-> "marketCap",
       val |-> format_number(Get(info, "marketCap", None))],
      [label |-> "PE Ratio", key |-> "trailingPE",
       val |-> format_pe_ratio(Get(info, "trailingPE", None))],
      [label |-> "Forward PE", key |-> "forwardPE",
       val |-> format_pe_ratio(Get(info, "forwardPE", None))],
      [label |-> "Expected EPS Growth", key |-> "earningsGrowth",
       val |-> format_percentage(Get(info, "earningsGrowth", None))],
      [label |-> "Revenue", key |-> "totalRevenue",
       val |-> format_number(Get(info, "totalRevenue", None))],
      [label |-> "Income", key |-> "netIncomeToCommon",
       val |-> format_number(Get(info, "netIncomeToCommon", None))],
      [label |-> "Outstanding Shares", key |-> "sharesOutstanding",
       val |-> format_number(Get(info, "sharesOutstanding", None))],
      [label |-> "Sector", key |-> "sector",
       val |-> Get(info, "sector", NA)]>>

display_stock_info ==
    /\ pc = "info"
    /\ \E info \in {Raise} \cup Infos :
          /\ reqs' = Append(reqs, Read("info", {}))
          /\ IF info = Raise
             THEN /\ resp' = Raise
                  /\ Abort
             ELSE /\ resp' = [kind |-> "info", info |-> info]
                  /\ out' = out \o <<Call("info", "subheader")>>
                                \o [i \in 1..Len(InfoLines(info)) |-> Call("info", "write")]
                  /\ text' = <<[label |-> "Stock Information"]>> \o InfoLines(info)
                  /\ pc' = After("info")
                  /\ UNCHANGED <<tickers, idx, arg, fnc, res>>

\* table[col] = table[col].apply(format_number)
Apply(table, col) == [table EXCEPT ![col] = format_number(@)]

display_financials ==
    /\ pc = "financials"
    /\ \E financials \in {Raise} \cup Financials :
          /\ reqs' = Append(reqs, Read("financials",
                                       IF financials = Raise THEN {}
                                       ELSE FinancialCols \ DOMAIN financials))
          /\ IF financials = Raise
             THEN /\ resp' = Raise
                  /\ Abort
             ELSE /\ resp' = [kind |-> "financials", financials |-> financials]
                  /\ IF "Total Revenue" \notin DOMAIN financials
                        \/ "Net Income" \notin DOMAIN financials
                     THEN Abort     \* KeyError
                     ELSE /\ out' = out \o <<Call("financials", "subheader"),
                                             Call("financials", "dataframe")>>
                          /\ text' = <<[label |-> "Financials"],
                                       [table |-> Apply(Apply(financials, "Total Revenue"),
                                                        "Net Income")]>>
                          /\ pc' = After("financials")
                          /\ UNCHANGED <<tickers, idx, arg, fnc, res>>

\* calendar[numeric_cols] = calendar[numeric_cols].applymap(format_number)
ApplyMap(calendar) == [c \in DOMAIN calendar |-> format_number(calendar[c])]

\* the two guarded apply statements for earnings, and for quarterly_earnings
FormatEarnings(earnings) ==
    IF earnings = None THEN None
    ELSE [c \in DOMAIN earnings |->
            IF c \in {"Revenue", "Earnings"} THEN format_number(earnings[c])
            ELSE earnings[c]]

display_calendar_and_expectations ==
    /\ pc = "calendar"
    /\ \E calendar \in {Raise} \cup Calendars, earnings \in {Raise} \cup Earnings,
          quarterly_earnings \in {Raise} \cup Earnings :
          IF calendar = Raise
          THEN /\ earnings = Raise /\ quarterly_earnings = Raise
               /\ reqs' = Append(reqs, Read("calendar", {}))
               /\ resp' = Raise
               /\ Abort
          ELSE IF earnings = Raise
          THEN /\ quarterly_earnings = Raise
               /\ reqs' = reqs \o <<Read("calendar", {}), Read("earnings", {})>>
               /\ resp' = Raise
               /\ Abort
          ELSE IF quarterly_earnings = Raise
          THEN /\ reqs' = reqs \o <<Read("calendar", {}), Read("earnings", {}),
                                    Read("quarterly_earnings", {})>>
               /\ resp' = Raise
               /\ Abort
          ELSE /\ reqs' = reqs \o <<Read("calendar", {}), Read("earnings", {}),
                                    Read("quarterly_earnings", {})>>
               /\ resp' = [kind |-> "calendar", calendar |-> calendar,
                           earnings |-> earnings, quarterly_earnings |-> quarterly_earnings]
               /\ out' = out \o <<Call("calendar", "subheader"), Call("calendar", "dataframe")>>
                             \o (IF earnings # None
                                 THEN <<Call("calendar", "dataframe")>> ELSE <<>>)
                             \o (IF quarterly_earnings # None
                                 THEN <<Call("calendar", "dataframe")>> ELSE <<>>)
               /\ text' = <<[label |-> "Calendar"], [table |-> ApplyMap(calendar)]>>
                             \o (IF earnings # None
                                 THEN <<[table |-> FormatEarnings(earnings)]>> ELSE <<>>)
                             \o (IF quarterly_earnings # None
                                 THEN <<[table |-> FormatEarnings(quarterly_earnings)]>>
                                 ELSE <<>>)
               /\ pc' = After("calendar")
               /\ UNCHANGED <<tickers, idx, arg, fnc, res>>

\* a slip: rating.head(10)
RatingHead(rating) ==
    [rows |-> SubSeq(rating.rows, 1,
                     IF Len(rating.rows) > TailRows THEN TailRows ELSE Len(rating.rows))]

\* rating.tail(10)
RatingTail(rating) ==
    [rows |-> SubSeq(rating.rows,
                     IF Len(rating.rows) > TailRows THEN Len(rating.rows) - TailRows + 1 ELSE 1,
                     Len(rating.rows))]

display_analyst_rating ==
    /\ pc = "rating"
    /\ \E rating \in {Raise} \cup Recommendations :
          /\ reqs' = Append(reqs, Read("recommendations", {}))
          /\ IF rating = Raise
             THEN /\ resp' = Raise
                  /\ Abort
             ELSE /\ resp' = [kind |-> "rating", rating |-> rating]
                  /\ IF rating # None
                     THEN /\ out' = out \o <<Call("rating", "subheader"),
                                             Call("rating", "dataframe")>>
                          /\ text' = <<[label |-> "Analyst Rating"],
                                       [table |-> RatingTail(rating)]>>
                     ELSE /\ out' = Append(out, Call("rating", "write"))
                          /\ text' = <<[label |-> "No analyst rating available."]>>
                  /\ pc' = After("rating")
                  /\ UNCHANGED <<tickers, idx, arg, fnc, res>>

\* st.write("---")
Separator ==
    /\ pc = "separator"
    /\ out' = Append(out, Call("separator", "write"))
    /\ text' = <<[md |-> "---"]>>
    /\ resp' = [kind |-> "none"]
    /\ pc' = After("separator")
    /\ UNCHANGED <<tickers, idx, reqs, arg, fnc, res>>

Next ==
    \/ NextTicker
    \/ Heading
    \/ display_finviz_chart
    \/ display_stock_info
    \/ display_financials
    \/ display_calendar_and_expectations
    \/ display_analyst_rating
    \/ Separator
    \/ Finish

Spec == Init /\ [][Next]_vars

----------------------------------------------------------------------------
(* The formatters applied to every argument of a bounded set. *)

TopVals == {0, 1, 2, 5, 23, 999}
MidVals == {0, 20, 49, 50, 51, 153, 340, 455, 456, 500, 949, 950, 951, 999}
LowVals == {0, 1, 400, 500, 999}

Numbers ==
    { [kind |-> "num", neg |-> s, digs |-> Place(t, m, l, p), pt |-> FracGroups, up |-> u] :
        s \in BOOLEAN, t \in TopVals, m \in MidVals, l \in LowVals, p \in 1..NG,
        u \in BOOLEAN }

FmtArgs == {None, NaN} \cup Numbers

Pending == [kind |-> "pending"]

IdleRun ==
    /\ tickers = <<>>
    /\ idx = 0
    /\ pc = "done"
    /\ out = <<>>
    /\ reqs = <<>>
    /\ resp = [kind |-> "none"]
    /\ text = <<>>

InitFmt ==
    /\ IdleRun
    /\ arg \in FmtArgs
    /\ fnc = "none"
    /\ res = Pending

CallFormatNumber ==
    /\ fnc = "none"
    /\ fnc' = "format_number"
    /\ res' = format_number(arg)
    /\ UNCHANGED <<tickers, idx, pc, out, reqs, resp, text, arg>>

CallFormatPercentage ==
    /\ fnc = "none"
    /\ fnc' = "format_percentage"
    /\ res' = format_percentage(arg)
    /\ UNCHANGED <<tickers, idx, pc, out, reqs, resp, text, arg>>

CallFormatPeRatio ==
    /\ fnc = "none"
    /\ fnc' = "format_pe_ratio"
    /\ res' = format_pe_ratio(arg)
    /\ UNCHANGED <<tickers, idx, pc, out, reqs, resp, text, arg>>

NextFmt == CallFormatNumber \/ CallFormatPercentage \/ CallFormatPeRatio

SpecFmt == InitFmt /\ [][NextFmt]_vars

----------------------------------------------------------------------------
(* Decimal reading of arguments and of rendered numerals, for stating the  *)
(* formatters' contracts.                                                  *)

Pow10 == <<1, 10, 100>>

\* the decimal digit of |number| at 10^e
ArgDigit(number, e) ==
    (Group(number.digs, number.pt + 1 + (e \div 3)) \div Pow10[(e % 3) + 1]) % 10

\* the decimal digit of a rendered numeral at 10^e, e >= -places
StrDigit(s, e) ==
    IF e >= 0 THEN (Group(s.whole, (e \div 3) + 1) \div Pow10[(e % 3) + 1]) % 10
    ELSE (s.frac \div Pow10[s.places + e + 1]) % 10

IsNumeral(s) == s.kind = "str" /\ DOMAIN s = {"kind", "neg", "whole", "frac", "places", "unit"}

Exps(places) == (0 - places)..(3 * (NG + 2))

\* |number| < 10^e
MagnitudeBelow(number, e) == \A d \in e..(3 * (NG + 2)) : ArgDigit(number, d) = 0

\* s shows |number| * 10^shift cut off after places fractional digits
ShowsTruncated(s, number, shift, places) ==
    \A e \in Exps(places) : StrDigit(s, e) = ArgDigit(number, e - shift)

\* s shows |number| * 10^shift cut off after places fractional digits, plus one
\* unit in the last place
ShowsNextUp(s, number, shift, places) ==
    \E c \in Exps(places) :
        /\ ArgDigit(number, c - shift) # 9
        /\ StrDigit(s, c) = ArgDigit(number, c - shift) + 1
        /\ \A e \in Exps(places) :
              /\ e < c => ArgDigit(number, e - shift) = 9 /\ StrDigit(s, e) = 0
              /\ e > c => StrDigit(s, e) = ArgDigit(number, e - shift)

\* the digits of |number| * 10^shift after the places-th fractional digit,
\* against one half of a unit in the last place: -1 below, 0 equal, 1 above
Dropped(number, shift, places) ==
    LET first == ArgDigit(number, 0 - places - 1 - shift)
        rest == \E e \in (0 - 3 * (NG + 2))..(0 - places - 2 - shift) : ArgDigit(number, e) # 0
    IN  IF first > 5 \/ (first = 5 /\ rest) THEN 1
        ELSE IF first = 5 THEN 0 ELSE -1

\* s is |number| * 10^shift correctly rounded to places fractional digits,
\* with the sign of number and the suffix unit
Renders(s, number, shift, places, unit) ==
    /\ IsNumeral(s)
    /\ s.neg = number.neg
    /\ s.places = places
    /\ s.unit = unit
    /\ s.frac < Pow10[places + 1]
    /\ \/ Dropped(number, shift, places) <= 0 /\ ShowsTruncated(s, number, shift, places)
       \/ Dropped(number, shift, places) >= 0 /\ ShowsNextUp(s, number, shift, places)

\* arg is the number (-1)^neg * (t * 1000^(p-1) + m * 1000^(p-2) + l * 1000^(p-3))
ArgIs(neg, t, m, l, p) ==
    /\ IsNum(arg)
    /\ arg.neg = neg
    /\ arg.digs = Place(t, m, l, FracGroups + p)

Str(neg, whole, frac, places, unit) ==
    [kind |-> "str", neg |-> neg, whole |-> whole, frac |-> frac, places |-> places,
     unit |-> unit]

\* the least index k in 0..4 with |number| / 1000^k < 1000 (4 when there is none)
LeastUnit(number) ==
    IF \E k \in 0..4 : MagnitudeBelow(number, 3 * (k + 1))
    THEN CHOOSE k \in 0..4 :
            /\ MagnitudeBelow(number, 3 * (k + 1))
            /\ \A i \in 0..(k - 1) : ~MagnitudeBelow(number, 3 * (i + 1))
    ELSE 4

\* C5: for |v| < 10^15 format_number returns v / 1000^k with one fractional
\* digit and the k-th suffix, k the least index with |v| / 1000^k < 1000, sign
\* kept; 0 -> "0.0", 999 -> "999.0", 1000 -> "1.0K", 1500000 -> "1.5M",
\* 2340000000 -> "2.3B", -5000 -> "-5.0K".
C5_ScaledToLeastUnit ==
    (fnc = "format_number" /\ IsNum(arg) /\ MagnitudeBelow(arg, 15)) =>
        /\ Renders(res, arg, 0 - 3 * LeastUnit(arg), 1, Units[LeastUnit(arg) + 1])
        /\ ArgIs(FALSE, 0, 0, 0, 1) => res = Str(FALSE, <<0>>, 0, 1, "")
        /\ ArgIs(FALSE, 999, 0, 0, 1) => res = Str(FALSE, <<999>>, 0, 1, "")
        /\ ArgIs(FALSE, 1, 0, 0, 2) => res = Str(FALSE, <<1>>, 0, 1, "K")
        /\ ArgIs(FALSE, 1, 500, 0, 3) => res = Str(FALSE, <<1>>, 5, 1, "M")
        /\ ArgIs(FALSE, 2, 340, 0, 4) => res = Str(FALSE, <<2>>, 3, 1, "B")
        /\ ArgIs(TRUE, 5, 0, 0, 2) => res = Str(TRUE, <<5>>, 0, 1, "K")

C5_Witness ==
    /\ fnc = "format_number"
    /\ ArgIs(FALSE, 2, 340, 0, 4)
    /\ res = Str(FALSE, <<2>>, 3, 1, "B")

\* C4: for |v| >= 10^15 format_number returns v / 10^12 with one fractional
\* digit and the suffix "T" (four divisions by 1000); 10^15 -> "1000.0T".
C4_SaturatesAtTrillions ==
    (fnc = "format_number" /\ IsNum(arg) /\ ~MagnitudeBelow(arg, 15)) =>
        /\ Renders(res, arg, -12, 1, "T")
        /\ ArgIs(FALSE, 1, 0, 0, 6) => res = Str(FALSE, <<0, 1>>, 0, 1, "T")

\* C10: for |v| < 10^15 the numeral format_number prints before the suffix is
\* below 1000 after rounding: never "1000.0" before "", "K", "M" or "B".
C10_MantissaBelow1000 ==
    (fnc = "format_number" /\ IsNum(arg) /\ MagnitudeBelow(arg, 15)) =>
        /\ IsNumeral(res)
        /\ res.unit \in {"", "K", "M", "B"} =>
              \A e \in 3..(3 * (NG + 2)) : StrDigit(res, e) = 0

\* C7: each formatter returns "N/A" exactly for None, and a numeral for every
\* number; format_percentage returns value * 100 with two fractional digits
\* and "%", format_pe_ratio the value with two fractional digits and "X".
C7_TotalAndNAOnlyForNone ==
    (fnc # "none") =>
        /\ res = NA <=> arg = None
        /\ IsNum(arg) => IsNumeral(res)
        /\ (IsNum(arg) /\ fnc = "format_percentage") => Renders(res, arg, 2, 2, "%")
        /\ (IsNum(arg) /\ fnc = "format_pe_ratio") => Renders(res, arg, 0, 2, "X")
        /\ (fnc = "format_percentage" /\ ArgIs(FALSE, 0, 153, 400, 1))
              => res = Str(FALSE, <<15>>, 34, 2, "%")
        /\ (fnc = "format_percentage" /\ ArgIs(TRUE, 0, 20, 0, 1))
              => res = Str(TRUE, <<2>>, 0, 2, "%")
        /\ (fnc = "format_pe_ratio" /\ ArgIs(FALSE, 23, 456, 0, 1))
              => res = Str(FALSE, <<23>>, 46, 2, "X")

C7_Witness ==
    /\ fnc = "format_percentage"
    /\ ArgIs(TRUE, 0, 20, 0, 1)
    /\ res = Str(TRUE, <<2>>, 0, 2, "%")

----------------------------------------------------------------------------
(* The run over a selection. *)

Ended == pc \in {"done", "aborted"}

Rendered(t, sec) == \E i \in 1..Len(out) : out[i].tk = t /\ out[i].sec = sec

\* the tickers of the render calls of section sec, in the order of the calls
TickersOf(sec) ==
    LET calls == SelectSeq(out, LAMBDA c : c.sec = sec /\ c.el = "write")
    IN  [i \in 1..Len(calls) |-> calls[i].tk]

\* C1: a failed data fetch while processing a ticker never ends the run before
\* the tickers after it in the selection have been processed.
C1_FailureDoesNotEndRun ==
    Ended => \A i \in 1..Len(tickers) : Rendered(tickers[i], "heading")

\* C2: at the end of a run the rendered sections ('## <ticker>' heading ...
\* '---' separator) are as many as the selected tickers and in selection order,
\* whether or not a fetch failed.
C2_OneSectionPerTicker ==
    Ended => TickersOf("heading") = tickers /\ TickersOf("separator") = tickers

\* C3: when the financial-statement table lacks an expected column only that
\* section is omitted; stock information, calendar, analyst rating and the
\* closing separator of the same ticker are still rendered.
C3_MalformedSkipsOnlyItsSection ==
    Ended =>
        \A i \in 1..Len(reqs) :
            (reqs[i].ep = "financials" /\ reqs[i].missing # {}) =>
                \A sec \in {"info", "calendar", "rating", "separator"} :
                    Rendered(reqs[i].tk, sec)

Missing(cell) == cell \in {None, NaN}

\* every missing cell of the table read is shown as "N/A" in the table rendered
CellsNA(read, shown) ==
    /\ DOMAIN shown = DOMAIN read
    /\ \A c \in DOMAIN read : Missing(read[c]) => shown[c] = NA

\* C6: every field the data client leaves absent is displayed as "N/A" and
\* the section still renders: the eight keys of the summary map, and the
\* missing cells of the financial-statement and earnings tables.
C6_AbsentShownAsNA ==
    /\ resp.kind = "info" =>
          /\ pc = "financials"
          /\ \A k \in InfoKeys \ DOMAIN resp.info :
                \E i \in 1..Len(text) :
                    /\ "key" \in DOMAIN text[i]
                    /\ text[i].key = k
                    /\ text[i].val = NA
    /\ (resp.kind = "financials" /\ FinancialCols \subseteq DOMAIN resp.financials) =>
          /\ pc = "calendar"
          /\ CellsNA(resp.financials, text[2].table)
    /\ resp.kind = "calendar" =>
          /\ pc = "rating"
          /\ resp.earnings # None => CellsNA(resp.earnings, text[3].table)
          /\ resp.quarterly_earnings # None =>
                CellsNA(resp.quarterly_earnings, text[Len(text)].table)

StepOrder == <<"heading", "chart", "info", "financials", "calendar", "rating", "separator">>

Rank(sec) == CHOOSE j \in 1..Len(StepOrder) : StepOrder[j] = sec

Position(t) == CHOOSE j \in 1..Len(tickers) : tickers[j] = t

\* C8: the render calls of two tickers are never interleaved and follow the
\* fixed step order: every call for the ticker at position i comes before the
\* first call for the ticker at position i+1, and within a ticker the chart is
\* rendered before any market-data section is fetched or rendered.
C8_NoInterleavingFixedOrder ==
    \* consecutive calls never step back in (position, step): so no call does
    /\ \A q \in 2..Len(out) :
          \/ Position(out[q - 1].tk) < Position(out[q].tk)
          \/ /\ out[q - 1].tk = out[q].tk
             /\ Rank(out[q - 1].sec) <= Rank(out[q].sec)
    /\ \A q \in 1..Len(out) :
          out[q].sec \in {"info", "financials", "calendar", "rating"} =>
            \E p \in 1..(q - 1) : out[p].tk = out[q].tk /\ out[p].sec = "chart"
    /\ \A i \in 1..Len(reqs) : Rendered(reqs[i].tk, "chart")

C8_Witness ==
    /\ pc = "done"
    /\ Len(tickers) = 2
    /\ Len(out) >= 2 * Len(StepOrder)
    /\ Len(reqs) = 12

CallsOf(t, sec) ==
    LET calls == SelectSeq(out, LAMBDA c : c.tk = t /\ c.sec = sec)
    IN  [i \in 1..Len(calls) |-> calls[i].el]

ReadsOf(t, ep) == Len(SelectSeq(reqs, LAMBDA r : r.tk = t /\ r.ep = ep))

\* the last n rows of a table
LastRows(rows, n) ==
    [i \in 1..(IF Len(rows) < n THEN Len(rows) ELSE n) |->
        rows[Len(rows) - (IF Len(rows) < n THEN Len(rows) ELSE n) + i]]

====
